---- MODULE Spec2Model ----
(***************************************************************************)
(* Model of docker/auto-monitor/sync_monitors.py: one run (or two runs in  *)
(* succession) of sync_monitors against a monitoring service whose calls   *)
(* may fail.  Strings that the code inspects character by character (URLs, *)
(* host names, container names, ignore patterns) are sequences of          *)
(* one-character strings; tag and group names, which the code only         *)
(* compares and concatenates, are plain strings.  The id 0 stands for      *)
(* None (both are falsy in the code's tests).                              *)
(***************************************************************************)
EXTENDS Naturals, Sequences, FiniteSets, TLC

\* ------------------------------------------------------------------ bounds
\* First attempts of session calls that may fail, over all runs.
MaxFaults == 1

\* --------------------------------------------------------- program constants
\* max_retries of the retry loops.
max_retries == 2

\* ------------------------------------------------------------------ strings
HTTPS == <<"h", "t", "t", "p", "s", ":", "/", "/">>
HTTP == <<"h", "t", "t", "p", ":", "/", "/">>

\* The characters the model's strings use, in code-point order.
Ascii == <<" ", "#", "*", "-", ".", "/", ":", "?", "A", "B",
           "a", "b", "c", "d", "h", "p", "s", "t", "x">>

CharCode(c) == CHOOSE i \in 1..Len(Ascii) : Ascii[i] = c

\* str.lower(), one character.
Lower(c) == CASE c = "A" -> "a" [] c = "B" -> "b" [] OTHER -> c

LowerStr(s) == [i \in 1..Len(s) |-> Lower(s[i])]

\* str.startswith
StartsWith(s, pre) == Len(s) >= Len(pre) /\ SubSeq(s, 1, Len(pre)) = pre

\* Python's string order: the first differing character decides, a proper
\* prefix comes first.
RECURSIVE StrLess(_, _)
StrLess(a, b) ==
    IF b = <<>> THEN FALSE
    ELSE IF a = <<>> THEN TRUE
    ELSE IF Head(a) = Head(b) THEN StrLess(Tail(a), Tail(b))
    ELSE CharCode(Head(a)) < CharCode(Head(b))

\* sorted(list): duplicates are kept.
RECURSIVE Sorted(_)
Sorted(s) ==
    IF s = <<>> THEN <<>>
    ELSE LET i == CHOOSE k \in 1..Len(s) :
                      \A j \in 1..Len(s) : ~StrLess(s[j], s[k])
             rest == [j \in 1..(Len(s) - 1) |-> IF j < i THEN s[j] ELSE s[j + 1]]
         IN <<s[i]>> \o Sorted(rest)

\* sorted(set)
RECURSIVE SortedSet(_)
SortedSet(S) ==
    IF S = {} THEN <<>>
    ELSE LET m == CHOOSE x \in S : \A y \in S : ~StrLess(y, x)
         IN <<m>> \o SortedSet(S \ {m})

\* The elements of a sequence.
Range(s) == {s[i] : i \in 1..Len(s)}

\* urlparse(url).netloc for a URL with a scheme: what follows "://" up to
\* the first "/", "?" or "#".
RECURSIVE UpToDelimiter(_)
UpToDelimiter(s) ==
    IF s = <<>> \/ Head(s) \in {"/", "?", "#"} THEN <<>>
    ELSE <<Head(s)>> \o UpToDelimiter(Tail(s))

Netloc(url) ==
    IF StartsWith(url, HTTPS) THEN UpToDelimiter(SubSeq(url, Len(HTTPS) + 1, Len(url)))
    ELSE IF StartsWith(url, HTTP) THEN UpToDelimiter(SubSeq(url, Len(HTTP) + 1, Len(url)))
    ELSE <<>>

\* str.strip() of blanks.
RECURSIVE LStrip(_)
LStrip(s) == IF s # <<>> /\ Head(s) = " " THEN LStrip(Tail(s)) ELSE s

RECURSIVE RStrip(_)
RStrip(s) ==
    IF s # <<>> /\ s[Len(s)] = " " THEN RStrip(SubSeq(s, 1, Len(s) - 1)) ELSE s

Strip(s) == RStrip(LStrip(s))

\* fnmatch(name, pat) with the wildcards * and ?.
RECURSIVE FnMatch(_, _)
FnMatch(name, pat) ==
    IF pat = <<>> THEN name = <<>>
    ELSE IF Head(pat) = "*"
         THEN FnMatch(name, Tail(pat)) \/ (name # <<>> /\ FnMatch(Tail(name), pat))
    ELSE IF name = <<>> THEN FALSE
    ELSE (Head(pat) = "?" \/ Head(pat) = Head(name)) /\ FnMatch(Tail(name), Tail(pat))

\* should_ignore(url, ignore_patterns)
should_ignore(url, ignore_patterns) ==
    IF ignore_patterns = <<>> THEN FALSE
    ELSE LET hostname == IF StartsWith(url, HTTP) \/ StartsWith(url, HTTPS)
                         THEN Netloc(url) ELSE url
         IN \E i \in 1..Len(ignore_patterns) :
                LET pattern == Strip(ignore_patterns[i])
                IN /\ pattern # <<>>
                   /\ \/ FnMatch(LowerStr(hostname), LowerStr(pattern))
                      \/ FnMatch(LowerStr(url), LowerStr(pattern))

\* ------------------------------------------------------- the model's inputs
\* The backtick of a rule, written as an apostrophe.
Tick == "'"
HostOpen == <<"H", "o", "s", "t", "(", Tick>>
HostClose == <<Tick, ")">>
\* The rule Host('name').
HostRule(name) == HostOpen \o name \o HostClose
\* A router of the proxy's answer: its entry points and its rule.
Router(eps, rule) == [entryPoints |-> eps, rule |-> rule]
UrlA == HTTPS \o <<"A", "x">>
UrlB == HTTPS \o <<"b">>
UrlOld == HTTP \o <<"A", "x">>
NameAb == <<"a", "b">>
NameC == <<"c">>
\* Strips to A*, which matches the host of UrlA and of UrlOld, and the name ab.
PatA == <<" ", "A", "*">>

\* What the discovery of each configured server finds: for a proxy the set
\* `hosts` built from its routers (empty also when the fetch fails), for a
\* container runtime the list of first names in the order of the response.
SourceChoices ==
    { [traefik_servers |-> << [group |-> "g1", fails |-> FALSE,
                               routers |-> << Router(<<"https">>, HostRule(<<"b">>)),
                                              Router(<<"http">>, HostRule(<<"c">>)),
                                              Router(<<"http", "https">>,
                                                     HostRule(<<"A", "x">>)) >>],
                              [group |-> "g2", fails |-> FALSE,
                               routers |-> << Router(<<"https">>, HostRule(<<"b">>)) >>] >>,
       docker_servers |-> << >>],
      [traefik_servers |-> << [group |-> "g1", fails |-> TRUE, routers |-> << >>],
                              [group |-> "", fails |-> FALSE,
                               routers |-> << Router(<<"https">>, HostRule(<<"b">>)) >>] >>,
       docker_servers |-> << >>],
      [traefik_servers |-> << >>,
       docker_servers |-> << [group |-> "g1", names |-> <<NameC, NameAb>>],
                             [group |-> "g1", names |-> <<NameC>>] >>],
      [traefik_servers |-> << >>,
       docker_servers |-> << [group |-> "g3", names |-> <<NameC>>],
                             [group |-> "", names |-> << >>],
                             [group |-> "g2", names |-> <<NameC>>] >>],
      [traefik_servers |-> << [group |-> "g1", fails |-> FALSE,
                               routers |-> << Router(<<"https">>, HostRule(<<"b">>)) >>] >>,
       docker_servers |-> << [group |-> "g1", names |-> <<NameC>>] >>],
      [traefik_servers |-> << [group |-> "traefik", fails |-> FALSE,
                               routers |-> << Router(<<"https">>, HostRule(<<"b">>)) >>] >>,
       docker_servers |-> << >>] }

IgnoreChoices == { << >>, <<PatA>> }

\* The monitoring service before the first run: fresh, or in use.
ServerChoices ==
    { [monitors |-> << >>,
       tags |-> << >>,
       docker_hosts |-> << [id |-> 1, name |-> "g1-docker"] >>],
      [monitors |-> << [id |-> 1, type |-> "http", name |-> <<"b">>, url |-> UrlB,
                        docker_host |-> 0, tags |-> <<1>>],
                       [id |-> 2, type |-> "http", name |-> <<"A", "x">>, url |-> UrlOld,
                        docker_host |-> 0, tags |-> << >>],
                       [id |-> 3, type |-> "docker", name |-> NameC, url |-> << >>,
                        docker_host |-> 1, tags |-> <<1, 2>>],
                       [id |-> 4, type |-> "docker", name |-> NameAb, url |-> << >>,
                        docker_host |-> 2, tags |-> << >>] >>,
       tags |-> << [id |-> 1, name |-> "manual"], [id |-> 2, name |-> "traefik"] >>,
       docker_hosts |-> << [id |-> 1, name |-> "g1-docker"],
                           [id |-> 2, name |-> "g2-docker"] >>] }

\* -------------------------------------------------------------------- state
VARIABLES
    cfg,                \* traefik_servers, docker_servers, ignore_patterns, reset_tags
    srvMonitors,        \* the service's monitors, in id order
    srvTags,            \* the service's tags
    srvDockerHosts,     \* the service's docker hosts
    srvNextId,          \* the id the service gives the next monitor
    run,                \* 1 in the first run of the script, 2 in the second
    prevClean,          \* the previous run ended with status 0 and no failed call
    srvAtStart,         \* the service's monitors when this run started
    faults,             \* failed first attempts so far
    pc,                 \* the statement sync_monitors is at
    exitCode,           \* the process's exit status
    log,                \* the session calls of this run, in order
    monitors,           \* the snapshot get_monitors returned
    monitors_to_remove,
    ri,                 \* position in monitors_to_remove
    total_removed,
    existing_urls,
    traefik_tag_id,
    total_created,
    gi,                 \* position in traefik_servers / docker_servers
    hosts,
    containers,
    tag_id,
    docker_tag_id,
    docker_host_id,
    existing_hosts,     \* existing_hosts_for_this_traefik
    ci,                 \* position in existing_hosts / containers (tag pass)
    monitor_id,
    monitor_tags,
    ti,                 \* position in monitor_tags
    failed,
    tags_to_add,
    ai,                 \* position in tags_to_add
    attempt,
    missing,            \* missing_hosts / missing_containers
    mi,                 \* position in missing
    tag_name,           \* argument of get_or_create_tag
    tagResult,          \* what get_or_create_tag returned
    tagRet,             \* where get_or_create_tag returns to
    addRet,             \* where add_tags_to_monitor returns to
    authRet,            \* where ensure_authenticated returns to
    chkRet              \* the tag pass (proxy or docker) a reset belongs to

srv == <<srvMonitors, srvTags, srvDockerHosts, srvNextId>>
runv == <<cfg, run, prevClean, srvAtStart>>
prune == <<monitors, monitors_to_remove, ri, total_removed>>
base == <<existing_urls, traefik_tag_id, total_created>>
grp == <<gi, hosts, containers, tag_id, docker_tag_id, docker_host_id>>
chk == <<existing_hosts, ci, monitor_id, monitor_tags, ti, failed>>
addv == <<tags_to_add, ai>>
crt == <<missing, mi>>
proc == <<tag_name, tagResult, tagRet, addRet, authRet, chkRet>>

vars == <<srv, runv, prune, base, grp, chk, addv, crt, proc,
          faults, pc, exitCode, log, attempt>>

\* ---------------------------------------------------- the session's answers
Kinds == {"ok", "err", "auth"}

\* The answers a call may get: the first attempt of a call fails only while
\* the fault budget lasts; a call made after a re-authentication may fail too.
Outcomes(kinds) == IF attempt > 0 \/ faults < MaxFaults THEN kinds ELSE {"ok"}

Charge(o) == IF attempt = 0 /\ o # "ok" THEN faults + 1 ELSE faults

\* The loop a statement belongs to: the proxy loop, the docker loop, or
\* neither (login, listing, pruning, the "traefik" tag, the final disconnect).
LoopOf(label) ==
    IF label \in {"t_group", "t_tagged", "t_check", "t_create", "t_created"}
    THEN "traefik"
    ELSE IF label \in {"d_group", "d_tagged", "d_kind_tagged", "dh_get",
                       "d_check", "d_create", "d_created"}
         THEN "docker"
         ELSE ""

\* The statement a helper was called from, for a position inside a helper.
CallerOf(label) ==
    CASE label \in {"tag_get", "tag_add"} -> tagRet
      [] label = "amt" -> addRet
      [] label = "rm_tag" -> chkRet
      [] OTHER -> label

\* The loop the current call is issued from ("" outside both loops); with g
\* it names the group a call of the log was made for.
Origin ==
    LoopOf(CallerOf(IF pc \in {"ea_disconnect", "ea_connect", "ea_login"}
                    THEN authRet ELSE pc))

\* One entry of the call log: the call, its monitor id, tag id, URL or name
\* (for a tag call the one-element list of the tag's name) and docker host id
\* (0 or <<>> when it has none), its outcome, the attempt it was made in and
\* the group being processed.
Call(op, mon, tag, key, dh, o) ==
    [op |-> op, mon |-> mon, tag |-> tag, key |-> key, dh |-> dh,
     res |-> o, att |-> attempt, g |-> gi, src |-> Origin]

\* A variant that retries after any error.
RetryAfterAnyError(o) == o # "ok" /\ attempt < max_retries - 1

\* "not logged in" / "unauthorized" in the error message, with a retry left.
RetryAfterAuth(o) == o = "auth" /\ attempt < max_retries - 1

\* ------------------------------------------------------ the service's state
SrvDeleteMonitor(ms, id) == SelectSeq(ms, LAMBDA m : m.id # id)

SrvAddMonitorTag(ms, id, tag) ==
    [i \in 1..Len(ms) |->
        IF ms[i].id = id THEN [ms[i] EXCEPT !.tags = Append(@, tag)] ELSE ms[i]]

SrvDeleteMonitorTag(ms, id, tag) ==
    [i \in 1..Len(ms) |->
        IF ms[i].id = id
        THEN [ms[i] EXCEPT !.tags = SelectSeq(@, LAMBDA t : t # tag)]
        ELSE ms[i]]

\* ------------------------------------------------------------- discovery
\* The longest prefix of s without a backtick: what the class [^'] consumes.
RECURSIVE UpToTick(_)
UpToTick(s) ==
    IF s = <<>> \/ Head(s) = Tick THEN <<>>
    ELSE <<Head(s)>> \o UpToTick(Tail(s))

\* s[a..b], nothing when it would run past the end of s.
Slice(s, a, b) == IF b > Len(s) THEN <<>> ELSE SubSeq(s, a, b)

\* Whether Host\('([^']+)'\) matches at position i of rule.
HostMatchAt(rule, i) ==
    /\ Slice(rule, i, i + 5) = HostOpen
    /\ LET name == UpToTick(Slice(rule, i + 6, Len(rule)))
       IN /\ name # <<>>
          /\ Slice(rule, i + 6 + Len(name), i + 7 + Len(name)) = HostClose

\* re.search(r"Host\('([^']+)'\)", rule): group 1 of the leftmost match,
\* <<>> when the rule has no match.
SearchHost(rule) ==
    LET at == {i \in 1..Len(rule) : HostMatchAt(rule, i)}
    IN IF at = {} THEN <<>>
       ELSE LET first == CHOOSE i \in at : \A j \in at : i <= j
            IN UpToTick(Slice(rule, first + 6, Len(rule)))

\* extract_hosts_from_traefik: sorted(hosts) over the routers with an "https"
\* entry point whose rule matches, [] when the fetch raised.
extract_hosts_from_traefik(info) ==
    IF info.fails THEN <<>>
    ELSE SortedSet({HTTPS \o SearchHost(r.rule) :
                      r \in {q \in Range(info.routers) :
                                /\ "https" \in Range(q.entryPoints)
                                /\ SearchHost(q.rule) # <<>>}})

\* The set of URLs a proxy's discovery returns.
Found(info) == Range(extract_hosts_from_traefik(info))

\* extract_containers_from_docker: sorted(container_names).
extract_containers_from_docker(info) == Sorted(info.names)

\* The position in the creation batch after add_monitor raised: the handler
\* prints and the loop goes on with the next identifier; with a variant that
\* gives up the batch.
AfterFailedAddAborts(i, batch) == Len(batch) + 1

AfterFailedAdd(i, batch) == i + 1

\* `if not hosts:` / `if not containers:` with a variant that never skips.
NoneFoundNever(found) == FALSE

NoneFound(found) == found = <<>>

\* --------------------------------------------------- sync_monitors, helpers
\* A variant of MonitorsToRemove that also matches a monitor without a url
\* by its name: the property C6_PrunedByUrl must tell the two apart.
MonitorsToRemoveByName(ms, ignore_patterns) ==
    IF ignore_patterns = <<>> THEN <<>>
    ELSE SelectSeq(ms, LAMBDA m :
            should_ignore(IF m.url # <<>> THEN m.url ELSE m.name, ignore_patterns))

\* A variant of MonitorsToRemove that also removes the monitors whose url no
\* proxy discovers any more.
MonitorsToRemoveStale(ms, ignore_patterns) ==
    SelectSeq(ms, LAMBDA m :
        /\ m.url # <<>>
        /\ \/ ignore_patterns # <<>> /\ should_ignore(m.url, ignore_patterns)
           \/ \A g \in 1..Len(cfg.traefik_servers) :
                  m.url \notin Found(cfg.traefik_servers[g]))

\* The monitors the pruning phase deletes.
MonitorsToRemove(ms, ignore_patterns) ==
    IF ignore_patterns = <<>> THEN <<>>
    ELSE SelectSeq(ms, LAMBDA m : m.url # <<>> /\ should_ignore(m.url, ignore_patterns))

\* existing_urls as built from the snapshot.
ExistingUrls(ms) == {ms[i].url : i \in {j \in 1..Len(ms) : ms[j].url # <<>>}}

\* A variant of FilterHosts that filters nothing: the property
\* C5_NoIgnoredUrlCreated must tell the two apart.
FilterHostsNone(hs, ignore_patterns) == hs

\* The hosts left after the ignore filter.
FilterHosts(hs, ignore_patterns) ==
    IF ignore_patterns = <<>> THEN hs
    ELSE SelectSeq(hs, LAMBDA h : ~should_ignore(h, ignore_patterns))

\* existing_hosts_for_this_traefik, computed only when the group tag resolved.
ExistingHosts(hs, urls, tag) ==
    IF tag # 0 THEN SelectSeq(hs, LAMBDA h : h \in urls) ELSE <<>>

\* A variant of MissingHosts without the dedup: the property
\* C4_CreationBatch must tell the two apart.
MissingHostsAll(hs, urls) == hs

\* missing_hosts
MissingHosts(hs, urls) == SelectSeq(hs, LAMBDA h : h \notin urls)

\* A variant of AddExistingUrl that forgets the new URL: the property
\* C2_NoUrlCreatedTwice must tell the two apart.
AddExistingUrlForgets(urls, host) == urls

\* existing_urls after a creation.
AddExistingUrl(urls, host) == urls \cup {host}

\* The snapshot's monitors with this URL (the code takes the first).
FindByUrl(ms, host) == SelectSeq(ms, LAMBDA m : m.url = host)

\* The snapshot's Docker monitors with this name on this docker host.
FindDocker(ms, name, dh) ==
    SelectSeq(ms, LAMBDA m : m.type = "docker" /\ m.name = name /\ m.docker_host = dh)

\* A variant of MissingContainers that matches a container by its name alone,
\* whatever the docker host: the property C19_WorkloadNaturalKey must tell
\* the two apart.
MissingContainersAnyHost(cs, ms, dh) ==
    LET existing_docker_monitors ==
            {ms[i].name : i \in {j \in 1..Len(ms) : ms[j].type = "docker"}}
    IN SelectSeq(cs, LAMBDA c : c \notin existing_docker_monitors)

\* missing_containers
MissingContainers(cs, ms, dh) ==
    LET existing_docker_monitors ==
            {ms[i].name : i \in {j \in 1..Len(ms) :
                                    ms[j].type = "docker" /\ ms[j].docker_host = dh}}
    IN SelectSeq(cs, LAMBDA c : c \notin existing_docker_monitors)

\* Normal mode: the tags a monitor lacks.
TagsToAdd(mtags, group_tag, kind_tag) ==
    (IF group_tag \notin Range(mtags) /\ group_tag # 0 THEN <<group_tag>> ELSE <<>>)
    \o (IF kind_tag \notin Range(mtags) /\ kind_tag # 0 THEN <<kind_tag>> ELSE <<>>)

\* A variant of ResetMode that always resets: the property
\* C8_AdditiveKeepsTags must tell the two apart.
ResetModeAlways(reset_tags) == TRUE

\* Whether the tag pass resets (removes every tag first) or only adds.
ResetMode(reset_tags) == reset_tags

\* A variant of IdByName that finds nothing: the property
\* C18_TagResolverIdempotent must tell the two apart.
IdByNameNever(list, name) == 0

\* The id of the tag / docker host with this name, 0 when there is none.
IdByName(list, name) ==
    LET found == SelectSeq(list, LAMBDA t : t.name = name)
    IN IF found = <<>> THEN 0 ELSE found[1].id

\* ---------------------------------------------------------------- Init
Init ==
    /\ \E s \in SourceChoices, ign \in IgnoreChoices, r \in BOOLEAN :
           cfg = [traefik_servers |-> s.traefik_servers,
                  docker_servers |-> s.docker_servers,
                  ignore_patterns |-> ign,
                  reset_tags |-> r]
    /\ \E s \in ServerChoices :
           /\ srvMonitors = s.monitors
           /\ srvTags = s.tags
           /\ srvDockerHosts = s.docker_hosts
           /\ srvNextId = Len(s.monitors) + 1
           /\ srvAtStart = s.monitors
    /\ run = 1
    /\ prevClean = FALSE
    /\ faults = 0
    /\ pc = "login"
    /\ exitCode = 0
    /\ log = <<>>
    /\ monitors = <<>>
    /\ monitors_to_remove = <<>>
    /\ ri = 1
    /\ total_removed = 0
    /\ existing_urls = {}
    /\ traefik_tag_id = 0
    /\ total_created = 0
    /\ gi = 1
    /\ hosts = <<>>
    /\ containers = <<>>
    /\ tag_id = 0
    /\ docker_tag_id = 0
    /\ docker_host_id = 0
    /\ existing_hosts = <<>>
    /\ ci = 1
    /\ monitor_id = 0
    /\ monitor_tags = <<>>
    /\ ti = 1
    /\ failed = FALSE
    /\ tags_to_add = <<>>
    /\ ai = 1
    /\ attempt = 0
    /\ missing = <<>>
    /\ mi = 1
    /\ tag_name = ""
    /\ tagResult = 0
    /\ tagRet = ""
    /\ addRet = ""
    /\ authRet = ""
    /\ chkRet = ""

\* ------------------------------------------------- the top of sync_monitors
\* A variant of Fatal that leaves the exit status alone: the property
\* C13_ExitStatus must tell the two apart.
FatalSwallowed == pc' = "finally" /\ exitCode' = exitCode

\* The top-level handler: print, sys.exit(1); the finally clause follows.
Fatal == pc' = "finally" /\ exitCode' = 1

\* api.login at the start of the run.
Login ==
    /\ pc = "login"
    /\ \E o \in Outcomes({"ok", "err"}) :
        /\ log' = Append(log, Call("login", 0, 0, <<>>, 0, o))
        /\ faults' = Charge(o)
        /\ IF o = "ok" THEN pc' = "get_monitors" /\ UNCHANGED exitCode ELSE Fatal
    /\ UNCHANGED <<srv, runv, prune, base, grp, chk, addv, crt, proc, attempt>>

\* api.get_monitors, then the choice of the monitors to remove.
GetMonitors ==
    /\ pc = "get_monitors"
    /\ \E o \in Outcomes(Kinds) :
        /\ log' = Append(log, Call("get_monitors", 0, 0, <<>>, 0, o))
        /\ faults' = Charge(o)
        /\ IF o = "ok"
           THEN /\ monitors' = srvMonitors
                /\ monitors_to_remove' = MonitorsToRemove(srvMonitors, cfg.ignore_patterns)
                /\ pc' = IF monitors_to_remove' # <<>> THEN "delete" ELSE "existing"
                /\ UNCHANGED exitCode
           ELSE Fatal /\ UNCHANGED <<monitors, monitors_to_remove>>
    /\ ri' = 1
    /\ total_removed' = 0
    /\ UNCHANGED <<srv, runv, base, grp, chk, addv, crt, proc, attempt>>

\* api.delete_monitor for one monitor of monitors_to_remove.
DeleteMonitor ==
    /\ pc = "delete"
    /\ \E o \in Outcomes(Kinds) :
        /\ log' = Append(log, Call("delete_monitor", monitors_to_remove[ri].id, 0,
                                   monitors_to_remove[ri].url, 0, o))
        /\ faults' = Charge(o)
        /\ IF o = "ok"
           THEN /\ srvMonitors' = SrvDeleteMonitor(srvMonitors, monitors_to_remove[ri].id)
                /\ total_removed' = total_removed + 1
           ELSE UNCHANGED <<srvMonitors, total_removed>>
    /\ ri' = ri + 1
    /\ pc' = IF ri < Len(monitors_to_remove) THEN "delete" ELSE "refresh"
    /\ UNCHANGED <<srvTags, srvDockerHosts, srvNextId, runv, monitors, monitors_to_remove,
                   base, grp, chk, addv, crt, proc, exitCode, attempt>>

\* api.get_monitors after the deletions.
RefreshMonitors ==
    /\ pc = "refresh"
    /\ \E o \in Outcomes(Kinds) :
        /\ log' = Append(log, Call("get_monitors", 0, 0, <<>>, 0, o))
        /\ faults' = Charge(o)
        /\ IF o = "ok"
           THEN monitors' = srvMonitors /\ pc' = "existing" /\ UNCHANGED exitCode
           ELSE Fatal /\ UNCHANGED monitors
    /\ UNCHANGED <<srv, runv, monitors_to_remove, ri, total_removed, base, grp, chk,
                   addv, crt, proc, attempt>>

\* existing_urls from the snapshot, then get_or_create_tag(api, "traefik").
BuildExisting ==
    /\ pc = "existing"
    /\ existing_urls' = ExistingUrls(monitors)
    /\ tag_name' = "traefik"
    /\ tagRet' = "traefik_tag"
    /\ pc' = "tag_get"
    /\ UNCHANGED <<srv, runv, prune, traefik_tag_id, total_created, grp, chk, addv, crt,
                   tagResult, addRet, authRet, chkRet, faults, exitCode, log, attempt>>

\* ------------------------------------------------------ ensure_authenticated
\* A variant of ReauthFailure in which the caller's handler catches the exit
\* and goes on: the property C14_ReauthFailureEndsRun must tell the two apart.
ReauthFailureCaught == pc' = authRet /\ UNCHANGED exitCode

\* The except clause of ensure_authenticated: sys.exit(1). SystemExit is no
\* Exception, so no handler on the way up catches it; the finally clause of
\* sync_monitors follows.
ReauthFailure == Fatal

\* The caller's `ensure_auth_fn(); continue`: the next attempt follows the
\* re-authentication.
CallEnsureAuthenticated(ret) ==
    /\ pc' = "ea_disconnect"
    /\ authRet' = ret
    /\ attempt' = attempt + 1

\* api.disconnect(): an error is printed and ignored, so the log does not
\* tell the two outcomes apart.
ReauthDisconnect ==
    /\ pc = "ea_disconnect"
    /\ \E o \in {"ok", "err"} :
        log' = Append(log, Call("disconnect", 0, 0, <<>>, 0, "ignored"))
    /\ pc' = "ea_connect"
    /\ UNCHANGED <<srv, runv, prune, base, grp, chk, addv, crt, proc,
                   faults, exitCode, attempt>>

\* api.sio.connect: a failure ends the process through sys.exit(1).
ReauthConnect ==
    /\ pc = "ea_connect"
    /\ \E o \in {"ok", "err"} :
        /\ log' = Append(log, Call("connect", 0, 0, <<>>, 0, o))
        /\ IF o = "ok" THEN pc' = "ea_login" /\ UNCHANGED exitCode ELSE ReauthFailure
    /\ UNCHANGED <<srv, runv, prune, base, grp, chk, addv, crt, proc, faults, attempt>>

\* api.login of the re-authentication: a failure ends the process.
ReauthLogin ==
    /\ pc = "ea_login"
    /\ \E o \in {"ok", "err"} :
        /\ log' = Append(log, Call("login", 0, 0, <<>>, 0, o))
        /\ IF o = "ok" THEN pc' = authRet /\ UNCHANGED exitCode ELSE ReauthFailure
    /\ UNCHANGED <<srv, runv, prune, base, grp, chk, addv, crt, proc, faults, attempt>>

\* --------------------------------------------------------- get_or_create_tag
\* return from get_or_create_tag
TagReturn(id) ==
    /\ tagResult' = id
    /\ pc' = tagRet
    /\ attempt' = 0
    /\ UNCHANGED authRet

\* The except clause of get_or_create_tag: retry once after an auth error,
\* otherwise warn and return None.
TagFailure(o) ==
    IF RetryAfterAuth(o)
    THEN CallEnsureAuthenticated("tag_get") /\ UNCHANGED tagResult
    ELSE TagReturn(0)

\* api.get_tags and the lookup of tag_name.
GetTags ==
    /\ pc = "tag_get"
    /\ \E o \in Outcomes(Kinds) :
        /\ log' = Append(log, Call("get_tags", 0, 0, <<tag_name>>, 0, o))
        /\ faults' = Charge(o)
        /\ IF o = "ok"
           THEN IF IdByName(srvTags, tag_name) # 0
                THEN TagReturn(IdByName(srvTags, tag_name))
                ELSE pc' = "tag_add" /\ UNCHANGED <<tagResult, attempt, authRet>>
           ELSE TagFailure(o)
    /\ UNCHANGED <<srv, runv, prune, base, grp, chk, addv, crt,
                   tag_name, tagRet, addRet, chkRet, exitCode>>

\* api.add_tag for a name the listing did not hold.
AddTag ==
    /\ pc = "tag_add"
    /\ \E o \in Outcomes(Kinds) :
        /\ log' = Append(log, Call("add_tag", 0, Len(srvTags) + 1, <<tag_name>>, 0, o))
        /\ faults' = Charge(o)
        /\ IF o = "ok"
           THEN /\ srvTags' = Append(srvTags, [id |-> Len(srvTags) + 1, name |-> tag_name])
                /\ TagReturn(Len(srvTags) + 1)
           ELSE TagFailure(o) /\ UNCHANGED srvTags
    /\ UNCHANGED <<srvMonitors, srvDockerHosts, srvNextId, runv, prune, base, grp, chk,
                   addv, crt, tag_name, tagRet, addRet, chkRet, exitCode>>

\* get_or_create_tag(api, name, ensure_authenticated), returning to ret.
CallGetOrCreateTag(name, ret) ==
    /\ tag_name' = name
    /\ tagRet' = ret
    /\ pc' = "tag_get"

\* ------------------------------------------------------- add_tags_to_monitor
\* A variant of NoTag that takes every tag id for a tag: the property
\* C17_TaggingIsBestEffort must tell the two apart.
NoTagNever(t) == FALSE

\* `if not tag_id: continue`: an unresolved tag (None) is skipped.
NoTag(t) == t = 0

\* add_tags_to_monitor(api, monitor_id, tags_to_add, ensure_authenticated),
\* returning to ret.
CallAddTagsToMonitor(tags, ret) ==
    /\ tags_to_add' = tags
    /\ ai' = 1
    /\ addRet' = ret
    /\ pc' = "amt"

\* One turn of add_tags_to_monitor's loop: return after the last tag, skip a
\* falsy tag id, or call api.add_monitor_tag.
AddMonitorTag ==
    /\ pc = "amt"
    /\ IF ai > Len(tags_to_add)
       THEN /\ pc' = addRet
            /\ UNCHANGED <<srvMonitors, ai, attempt, authRet, faults, log>>
       ELSE IF NoTag(tags_to_add[ai])
       THEN /\ ai' = ai + 1
            /\ UNCHANGED <<srvMonitors, pc, attempt, authRet, faults, log>>
       ELSE \E o \in Outcomes(Kinds) :
            /\ log' = Append(log, Call("add_monitor_tag", monitor_id, tags_to_add[ai],
                                       <<>>, 0, o))
            /\ faults' = Charge(o)
            /\ IF o = "ok"
               THEN /\ srvMonitors' = SrvAddMonitorTag(srvMonitors, monitor_id, tags_to_add[ai])
                    /\ ai' = ai + 1
                    /\ attempt' = 0
                    /\ UNCHANGED <<pc, authRet>>
               ELSE IF RetryAfterAuth(o)
               THEN CallEnsureAuthenticated("amt") /\ UNCHANGED <<srvMonitors, ai>>
               ELSE /\ ai' = ai + 1
                    /\ attempt' = 0
                    /\ UNCHANGED <<srvMonitors, pc, authRet>>
    /\ UNCHANGED <<srvTags, srvDockerHosts, srvNextId, runv, prune, base, grp, chk,
                   tags_to_add, crt, tag_name, tagResult, tagRet, addRet, chkRet, exitCode>>

\* ------------------------------------------------- the reset of one monitor
\* A variant of ResetProceeds that adds the required tags also after a failed
\* removal: the property C16_ResetAbort must tell the two apart.
ResetProceedsAlways(f) == TRUE

\* `if not failed:` after the removal loop: the required tags are added only
\* when every removal went through.
ResetProceeds(f) == ~f

\* One turn of the removal loop of reset mode (the same code in the proxy and
\* in the docker tag pass): api.delete_monitor_tag for one current tag; after
\* the last tag, the required tags are added unless a removal failed.
RemoveMonitorTag ==
    /\ pc = "rm_tag"
    /\ IF ti > Len(monitor_tags)
       THEN /\ IF ResetProceeds(failed)
               THEN CallAddTagsToMonitor(tags_to_add, chkRet)
               ELSE pc' = chkRet /\ UNCHANGED <<addv, addRet>>
            /\ UNCHANGED <<srvMonitors, ti, failed, attempt, authRet, faults, log>>
       ELSE \E o \in Outcomes(Kinds) :
            /\ log' = Append(log, Call("delete_monitor_tag", monitor_id, monitor_tags[ti],
                                       <<>>, 0, o))
            /\ faults' = Charge(o)
            /\ IF o = "ok"
               THEN /\ srvMonitors' = SrvDeleteMonitorTag(srvMonitors, monitor_id,
                                                          monitor_tags[ti])
                    /\ ti' = ti + 1
                    /\ attempt' = 0
                    /\ UNCHANGED <<pc, failed, authRet>>
               ELSE IF RetryAfterAuth(o)
               THEN CallEnsureAuthenticated("rm_tag") /\ UNCHANGED <<srvMonitors, ti, failed>>
               ELSE /\ failed' = TRUE
                    /\ ti' = ti + 1
                    /\ attempt' = 0
                    /\ UNCHANGED <<srvMonitors, pc, authRet>>
            /\ UNCHANGED <<addv, addRet>>
    /\ UNCHANGED <<srvTags, srvDockerHosts, srvNextId, runv, prune, base, grp,
                   existing_hosts, ci, monitor_id, monitor_tags, crt,
                   tag_name, tagResult, tagRet, chkRet, exitCode>>

\* The tag pass for one matched monitor m (the same code for both kinds):
\* reset mode removes every current tag and adds the required ones, normal
\* mode adds the required tags the snapshot does not show.
Reconcile(m, kind_tag, ret) ==
    /\ monitor_id' = m.id
    /\ monitor_tags' = m.tags
    /\ chkRet' = ret
    /\ IF ResetMode(cfg.reset_tags)
       THEN IF Len(m.tags) > 0
            THEN /\ ti' = 1
                 /\ failed' = FALSE
                 /\ tags_to_add' = <<tag_id, kind_tag>>
                 /\ pc' = "rm_tag"
                 /\ UNCHANGED <<ai, addRet>>
            ELSE /\ CallAddTagsToMonitor(<<tag_id, kind_tag>>, ret)
                 /\ UNCHANGED <<ti, failed>>
       ELSE IF TagsToAdd(m.tags, tag_id, kind_tag) # <<>>
            THEN /\ CallAddTagsToMonitor(TagsToAdd(m.tags, tag_id, kind_tag), ret)
                 /\ UNCHANGED <<ti, failed>>
            ELSE /\ pc' = ret
                 /\ UNCHANGED <<ti, failed, addv, addRet>>

\* ------------------------------------------------------- the proxy groups
\* traefik_tag_id = get_or_create_tag(...); the loop over traefik_servers starts.
TraefikTag ==
    /\ pc = "traefik_tag"
    /\ traefik_tag_id' = tagResult
    /\ total_created' = 0
    /\ gi' = 1
    /\ pc' = "t_group"
    /\ UNCHANGED <<srv, runv, prune, existing_urls, hosts, containers, tag_id,
                   docker_tag_id, docker_host_id, chk, addv, crt, proc,
                   faults, exitCode, log, attempt>>

\* The head of one turn of the loop over traefik_servers: discovery, the
\* ignore filter, and the call that resolves the group's tag.
TraefikGroup ==
    /\ pc = "t_group"
    /\ IF gi > Len(cfg.traefik_servers)
       THEN /\ pc' = "d_group"
            /\ gi' = 1
            /\ UNCHANGED <<hosts, tag_name, tagResult, tagRet>>
       ELSE IF NoneFound(extract_hosts_from_traefik(cfg.traefik_servers[gi]))
       THEN /\ gi' = gi + 1
            /\ UNCHANGED <<pc, hosts, tag_name, tagResult, tagRet>>
       ELSE /\ hosts' = FilterHosts(extract_hosts_from_traefik(cfg.traefik_servers[gi]),
                                    cfg.ignore_patterns)
            /\ IF cfg.traefik_servers[gi].group # ""
               THEN /\ CallGetOrCreateTag(cfg.traefik_servers[gi].group, "t_tagged")
                    /\ UNCHANGED tagResult
               ELSE /\ tagResult' = 0
                    /\ pc' = "t_tagged"
                    /\ UNCHANGED <<tag_name, tagRet>>
            /\ UNCHANGED gi
    /\ UNCHANGED <<srv, runv, prune, base, containers, tag_id, docker_tag_id,
                   docker_host_id, chk, addv, crt, addRet, authRet, chkRet,
                   faults, exitCode, log, attempt>>

\* tag_id = get_or_create_tag(...) (or None); the tag pass starts.
TraefikTagged ==
    /\ pc = "t_tagged"
    /\ tag_id' = tagResult
    /\ existing_hosts' = ExistingHosts(hosts, existing_urls, tagResult)
    /\ ci' = 1
    /\ pc' = "t_check"
    /\ UNCHANGED <<srv, runv, prune, base, gi, hosts, containers, docker_tag_id,
                   docker_host_id, monitor_id, monitor_tags, ti, failed, addv, crt,
                   proc, faults, exitCode, log, attempt>>

\* One turn of the tag pass over existing_hosts_for_this_traefik; after the
\* last host, missing_hosts is computed.
TraefikCheck ==
    /\ pc = "t_check"
    /\ IF ci > Len(existing_hosts)
       THEN /\ missing' = MissingHosts(hosts, existing_urls)
            /\ mi' = 1
            /\ pc' = "t_create"
            /\ UNCHANGED <<ci, monitor_id, monitor_tags, ti, failed, addv, addRet, chkRet>>
       ELSE /\ ci' = ci + 1
            /\ IF FindByUrl(monitors, existing_hosts[ci]) = <<>>
               THEN UNCHANGED <<pc, monitor_id, monitor_tags, ti, failed, addv, addRet, chkRet>>
               ELSE Reconcile(FindByUrl(monitors, existing_hosts[ci])[1],
                              traefik_tag_id, "t_check")
            /\ UNCHANGED crt
    /\ UNCHANGED <<srv, runv, prune, base, grp, existing_hosts,
                   tag_name, tagResult, tagRet, authRet, faults, exitCode, log, attempt>>

\* One turn of the loop over missing_hosts: api.add_monitor for an HTTP
\* monitor, then its tags; after the last host, the next group.
TraefikCreate ==
    /\ pc = "t_create"
    /\ IF mi > Len(missing)
       THEN /\ gi' = gi + 1
            /\ pc' = "t_group"
            /\ UNCHANGED <<srvMonitors, srvNextId, monitor_id, mi, addv, addRet, faults, log>>
       ELSE \E o \in Outcomes(Kinds) :
            /\ log' = Append(log, Call("add_monitor", srvNextId, 0, missing[mi], 0, o))
            /\ faults' = Charge(o)
            /\ IF o = "ok"
               THEN /\ srvMonitors' = Append(srvMonitors,
                            [id |-> srvNextId, type |-> "http", name |-> Netloc(missing[mi]),
                             url |-> missing[mi], docker_host |-> 0, tags |-> <<>>])
                    /\ srvNextId' = srvNextId + 1
                    /\ monitor_id' = srvNextId
                    /\ CallAddTagsToMonitor(<<tag_id, traefik_tag_id>>, "t_created")
                    /\ UNCHANGED mi
               ELSE /\ mi' = AfterFailedAdd(mi, missing)
                    /\ UNCHANGED <<srvMonitors, srvNextId, monitor_id, pc, addv, addRet>>
            /\ UNCHANGED gi
    /\ UNCHANGED <<srvTags, srvDockerHosts, runv, prune, base, hosts, containers, tag_id,
                   docker_tag_id, docker_host_id, existing_hosts, ci, monitor_tags, ti,
                   failed, missing, tag_name, tagResult, tagRet, authRet, chkRet,
                   exitCode, attempt>>

\* After the new monitor's tags: count it and remember its URL.
TraefikCreated ==
    /\ pc = "t_created"
    /\ total_created' = total_created + 1
    /\ existing_urls' = AddExistingUrl(existing_urls, missing[mi])
    /\ mi' = mi + 1
    /\ pc' = "t_create"
    /\ UNCHANGED <<srv, runv, prune, traefik_tag_id, grp, chk, addv, missing, proc,
                   faults, exitCode, log, attempt>>

\* ------------------------------------------------------- the docker groups
\* docker_host = f"{group_name}-docker"
DockerHostName(group_name) == group_name \o "-docker"

\* The head of one turn of the loop over docker_servers: discovery and the
\* call that resolves the group's tag; after the last group the run is
\* complete.
DockerGroup ==
    /\ pc = "d_group"
    /\ IF gi > Len(cfg.docker_servers)
       THEN /\ pc' = "finally"
            /\ UNCHANGED <<gi, containers, tag_name, tagResult, tagRet>>
       ELSE IF NoneFound(extract_containers_from_docker(cfg.docker_servers[gi]))
       THEN /\ gi' = gi + 1
            /\ UNCHANGED <<pc, containers, tag_name, tagResult, tagRet>>
       ELSE /\ containers' = extract_containers_from_docker(cfg.docker_servers[gi])
            /\ IF cfg.docker_servers[gi].group # ""
               THEN /\ CallGetOrCreateTag(cfg.docker_servers[gi].group, "d_tagged")
                    /\ UNCHANGED tagResult
               ELSE /\ tagResult' = 0
                    /\ pc' = "d_tagged"
                    /\ UNCHANGED <<tag_name, tagRet>>
            /\ UNCHANGED gi
    /\ UNCHANGED <<srv, runv, prune, base, hosts, tag_id, docker_tag_id,
                   docker_host_id, chk, addv, crt, addRet, authRet, chkRet,
                   faults, exitCode, log, attempt>>

\* tag_id = get_or_create_tag(...) (or None), then get_or_create_tag(api, "docker").
DockerTagged ==
    /\ pc = "d_tagged"
    /\ tag_id' = tagResult
    /\ CallGetOrCreateTag("docker", "d_kind_tagged")
    /\ UNCHANGED <<srv, runv, prune, base, gi, hosts, containers, docker_tag_id,
                   docker_host_id, chk, addv, crt, tagResult, addRet, authRet, chkRet,
                   faults, exitCode, log, attempt>>

\* docker_tag_id = get_or_create_tag(...); get_docker_host_id is called.
DockerKindTagged ==
    /\ pc = "d_kind_tagged"
    /\ docker_tag_id' = tagResult
    /\ pc' = "dh_get"
    /\ UNCHANGED <<srv, runv, prune, base, gi, hosts, containers, tag_id,
                   docker_host_id, chk, addv, crt, proc, faults, exitCode, log, attempt>>

\* A variant of DockerHostReturn that goes on with the group also without a
\* host id: the property C20_NoDockerHostSkipsGroup must tell the two apart.
DockerHostReturnProceeds(id) ==
    /\ docker_host_id' = id
    /\ attempt' = 0
    /\ ci' = 1
    /\ pc' = "d_check"
    /\ UNCHANGED <<gi, authRet>>

\* get_docker_host_id returned: without a host id the group is skipped.
DockerHostReturn(id) ==
    /\ docker_host_id' = id
    /\ attempt' = 0
    /\ ci' = 1
    /\ IF id = 0
       THEN gi' = gi + 1 /\ pc' = "d_group"
       ELSE pc' = "d_check" /\ UNCHANGED gi
    /\ UNCHANGED authRet

\* api.get_docker_hosts and the lookup of the group's docker host, with one
\* retry after an auth error; the log entry keeps the host id found.
GetDockerHosts ==
    /\ pc = "dh_get"
    /\ \E o \in Outcomes(Kinds) :
        /\ log' = Append(log, Call("get_docker_hosts", 0, 0, <<>>,
                                   IF o = "ok"
                                   THEN IdByName(srvDockerHosts,
                                                 DockerHostName(cfg.docker_servers[gi].group))
                                   ELSE 0, o))
        /\ faults' = Charge(o)
        /\ IF o = "ok"
           THEN DockerHostReturn(IdByName(srvDockerHosts,
                                          DockerHostName(cfg.docker_servers[gi].group)))
           ELSE IF RetryAfterAuth(o)
           THEN CallEnsureAuthenticated("dh_get") /\ UNCHANGED <<docker_host_id, ci, gi>>
           ELSE DockerHostReturn(0)
    /\ UNCHANGED <<srv, runv, prune, base, hosts, containers, tag_id, docker_tag_id,
                   existing_hosts, monitor_id, monitor_tags, ti, failed, addv, crt,
                   tag_name, tagResult, tagRet, addRet, chkRet, exitCode>>

\* One turn of the tag pass over containers (skipped when neither tag
\* resolved); after the last container, missing_containers is computed.
DockerCheck ==
    /\ pc = "d_check"
    /\ IF ci > Len(containers) \/ (tag_id = 0 /\ docker_tag_id = 0)
       THEN /\ missing' = MissingContainers(containers, monitors, docker_host_id)
            /\ mi' = 1
            /\ pc' = "d_create"
            /\ UNCHANGED <<ci, monitor_id, monitor_tags, ti, failed, addv, addRet, chkRet>>
       ELSE /\ ci' = ci + 1
            /\ IF FindDocker(monitors, containers[ci], docker_host_id) = <<>>
               THEN UNCHANGED <<pc, monitor_id, monitor_tags, ti, failed, addv, addRet, chkRet>>
               ELSE Reconcile(FindDocker(monitors, containers[ci], docker_host_id)[1],
                              docker_tag_id, "d_check")
            /\ UNCHANGED crt
    /\ UNCHANGED <<srv, runv, prune, base, grp, existing_hosts,
                   tag_name, tagResult, tagRet, authRet, faults, exitCode, log, attempt>>

\* One turn of the loop over missing_containers: api.add_monitor for a Docker
\* monitor, then its tags; after the last container, the next group.
DockerCreate ==
    /\ pc = "d_create"
    /\ IF mi > Len(missing)
       THEN /\ gi' = gi + 1
            /\ pc' = "d_group"
            /\ UNCHANGED <<srvMonitors, srvNextId, monitor_id, mi, addv, addRet, faults, log>>
       ELSE \E o \in Outcomes(Kinds) :
            /\ log' = Append(log, Call("add_monitor", srvNextId, 0, missing[mi],
                                       docker_host_id, o))
            /\ faults' = Charge(o)
            /\ IF o = "ok"
               THEN /\ srvMonitors' = Append(srvMonitors,
                            [id |-> srvNextId, type |-> "docker", name |-> missing[mi],
                             url |-> <<>>, docker_host |-> docker_host_id, tags |-> <<>>])
                    /\ srvNextId' = srvNextId + 1
                    /\ monitor_id' = srvNextId
                    /\ CallAddTagsToMonitor(<<tag_id, docker_tag_id>>, "d_created")
                    /\ UNCHANGED mi
               ELSE /\ mi' = AfterFailedAdd(mi, missing)
                    /\ UNCHANGED <<srvMonitors, srvNextId, monitor_id, pc, addv, addRet>>
            /\ UNCHANGED gi
    /\ UNCHANGED <<srvTags, srvDockerHosts, runv, prune, base, hosts, containers, tag_id,
                   docker_tag_id, docker_host_id, existing_hosts, ci, monitor_tags, ti,
                   failed, missing, tag_name, tagResult, tagRet, authRet, chkRet,
                   exitCode, attempt>>

\* After the new Docker monitor's tags: count it.
DockerCreated ==
    /\ pc = "d_created"
    /\ total_created' = total_created + 1
    /\ mi' = mi + 1
    /\ pc' = "d_create"
    /\ UNCHANGED <<srv, runv, prune, existing_urls, traefik_tag_id, grp, chk, addv,
                   missing, proc, faults, exitCode, log, attempt>>

\* ------------------------------------------------------- the end of a run
\* A variant of DisconnectStatus in which an error of the final disconnect
\* becomes the exit status: the property C15_DisconnectOnExit must tell the
\* two apart.
DisconnectStatusRaises(o) == IF o = "ok" THEN exitCode ELSE 1

\* The exit status after the final disconnect: `except: pass` swallows its
\* error, the status stays what it was.
DisconnectStatus(o) == exitCode

\* The finally clause: api.disconnect(), any error swallowed.
Finally ==
    /\ pc = "finally"
    /\ \E o \in Outcomes({"ok", "err"}) :
        /\ log' = Append(log, Call("disconnect", 0, 0, <<>>, 0, o))
        /\ faults' = IF o # "ok" /\ attempt = 0 THEN faults + 1 ELSE faults
        /\ exitCode' = DisconnectStatus(o)
    /\ pc' = "exited"
    /\ UNCHANGED <<srv, runv, prune, base, grp, chk, addv, crt, proc, attempt>>

\* No call of the run so far failed.
NoFailedCall == \A i \in 1..Len(log) : log[i].res = "ok"

\* The script is run again, with the same configuration and the same
\* discovery results, after a run that completed without any failed call.
Restart ==
    /\ pc = "exited"
    /\ run = 1
    /\ exitCode = 0
    /\ NoFailedCall
    /\ run' = 2
    /\ prevClean' = TRUE
    /\ srvAtStart' = srvMonitors
    /\ pc' = "login"
    /\ log' = <<>>
    /\ monitors' = <<>>
    /\ monitors_to_remove' = <<>>
    /\ ri' = 1
    /\ total_removed' = 0
    /\ existing_urls' = {}
    /\ traefik_tag_id' = 0
    /\ total_created' = 0
    /\ gi' = 1
    /\ hosts' = <<>>
    /\ containers' = <<>>
    /\ tag_id' = 0
    /\ docker_tag_id' = 0
    /\ docker_host_id' = 0
    /\ existing_hosts' = <<>>
    /\ ci' = 1
    /\ monitor_id' = 0
    /\ monitor_tags' = <<>>
    /\ ti' = 1
    /\ failed' = FALSE
    /\ tags_to_add' = <<>>
    /\ ai' = 1
    /\ attempt' = 0
    /\ missing' = <<>>
    /\ mi' = 1
    /\ tag_name' = ""
    /\ tagResult' = 0
    /\ tagRet' = ""
    /\ addRet' = ""
    /\ authRet' = ""
    /\ chkRet' = ""
    /\ UNCHANGED <<srv, cfg, faults, exitCode>>

Next ==
    \/ Login
    \/ GetMonitors
    \/ DeleteMonitor
    \/ RefreshMonitors
    \/ BuildExisting
    \/ ReauthDisconnect
    \/ ReauthConnect
    \/ ReauthLogin
    \/ GetTags
    \/ AddTag
    \/ AddMonitorTag
    \/ RemoveMonitorTag
    \/ TraefikTag
    \/ TraefikGroup
    \/ TraefikTagged
    \/ TraefikCheck
    \/ TraefikCreate
    \/ TraefikCreated
    \/ DockerGroup
    \/ DockerTagged
    \/ DockerKindTagged
    \/ GetDockerHosts
    \/ DockerCheck
    \/ DockerCreate
    \/ DockerCreated
    \/ Finally
    \/ Restart

Spec == Init /\ [][Next]_vars

\* ============================================================ the claims
\* Entries of the call log.
\* The run has ended: its call log is complete.  Every call log is the start
\* of the log of an ended run, so a property of the calls made so far that
\* holds of all ended runs holds of every run at every moment.
RunOver == pc = "exited"

IsAdd(e) == e.op = "add_monitor"
IsHttpAdd(e) == e.op = "add_monitor" /\ e.dh = 0
IsDockerAdd(e) == e.op = "add_monitor" /\ e.dh # 0
IsTagMutation(e) == e.op \in {"add_monitor_tag", "delete_monitor_tag"}

\* The proxy group being processed has finished its creation loop.
ProxyPassDone == pc = "t_create" /\ mi > Len(missing)
\* The docker group being processed has finished its creation loop.
DockerPassDone == pc = "d_create" /\ mi > Len(missing)

\* The URLs of the snapshot's monitors.
SnapshotUrls == {monitors[i].url : i \in 1..Len(monitors)}

\* The URLs the proxy groups before the current one created in this run.
CreatedByEarlierGroups ==
    {log[i].key : i \in {j \in 1..Len(log) :
                            IsHttpAdd(log[j]) /\ log[j].res = "ok" /\ log[j].g < gi}}

\* ---- C1
\* C1 (idempotence): after a run that completed without a failed call, a
\* second run with the same discovery results, the same ignore patterns and
\* reset_tags false issues no add_monitor, no add_monitor_tag and no
\* delete_monitor_tag.
C1_SecondRunIsQuiet ==
    (run = 2 /\ prevClean /\ ~cfg.reset_tags /\ NoFailedCall)
        => \A i \in 1..Len(log) : ~IsAdd(log[i]) /\ ~IsTagMutation(log[i])

\* ---- C2
\* C2: within one run, add_monitor is never issued for a URL for which an
\* earlier add_monitor of the run succeeded.
C2_NoUrlCreatedTwice ==
    RunOver => \A j \in 1..Len(log) :
        IsHttpAdd(log[j]) =>
            \A i \in 1..(j - 1) :
                (IsHttpAdd(log[i]) /\ log[i].res = "ok") => log[i].key # log[j].key

\* A second proxy group has finished its pass, having discovered a URL that
\* the first group created in this run.
C2_Witness ==
    /\ ProxyPassDone
    /\ gi = 2
    /\ \E i \in 1..Len(log) :
        /\ IsHttpAdd(log[i]) /\ log[i].res = "ok" /\ log[i].g = 1
        /\ log[i].key \in Range(hosts)

\* ---- C3
\* C3: within one run, add_monitor is never issued twice for the same
\* (container name, docker host id) pair.
C3_NoContainerCreatedTwice ==
    \A j \in 1..Len(log) :
        IsDockerAdd(log[j]) =>
            \A i \in 1..(j - 1) :
                (IsDockerAdd(log[i]) /\ log[i].res = "ok")
                    => <<log[i].key, log[i].dh>> # <<log[j].key, log[j].dh>>

\* ---- C4
\* C4 (natural-key dedup): in a proxy group's creation loop, the creation
\* batch holds, once each, exactly the discovered URLs that pass the ignore
\* filter and equal the URL of no monitor of the snapshot and of no monitor
\* created earlier in the run; and the add_monitor calls the group has issued
\* are those for the part of the batch already handled.
C4_CreationBatch ==
    pc = "t_create" =>
        /\ Range(missing) =
              {h \in Found(cfg.traefik_servers[gi]) :
                  /\ ~should_ignore(h, cfg.ignore_patterns)
                  /\ h \notin SnapshotUrls
                  /\ h \notin CreatedByEarlierGroups}
        /\ Cardinality(Range(missing)) = Len(missing)
        /\ {log[i].key : i \in {j \in 1..Len(log) : IsHttpAdd(log[j]) /\ log[j].g = gi}}
              = Range(SubSeq(missing, 1, mi - 1))

\* Desired {UrlA, UrlB}, a monitor with URL UrlB in the snapshot: the batch
\* was UrlA alone and its add_monitor has been issued.
C4_Witness ==
    /\ ProxyPassDone
    /\ Found(cfg.traefik_servers[gi]) = {UrlA, UrlB}
    /\ UrlB \in SnapshotUrls
    /\ missing = <<UrlA>>
    /\ \E i \in 1..Len(log) : IsHttpAdd(log[i]) /\ log[i].key = UrlA

\* ---- C5
\* C5 as claimed: add_monitor is never issued for a discovered identifier,
\* proxy host URL or container name, that matches an ignore pattern.
C5_NoIgnoredIdentifierCreated ==
    \A i \in 1..Len(log) :
        IsAdd(log[i]) => ~should_ignore(log[i].key, cfg.ignore_patterns)

\* C5 as amended: add_monitor is never issued for a discovered proxy host URL
\* that matches an ignore pattern (container names are not filtered).
C5_NoIgnoredUrlCreated ==
    RunOver => \A i \in 1..Len(log) :
        IsHttpAdd(log[i]) => ~should_ignore(log[i].key, cfg.ignore_patterns)

\* A proxy group that discovered a URL matching an ignore pattern, with no
\* monitor for it in the snapshot, has finished its pass.
C5_Witness ==
    /\ ProxyPassDone
    /\ \E h \in Found(cfg.traefik_servers[gi]) :
        should_ignore(h, cfg.ignore_patterns) /\ h \notin SnapshotUrls

\* ---- C6
\* The identifier the claim matches a monitor by: its url, or its name when
\* it has no url.
UrlOrName(m) == IF m.url # <<>> THEN m.url ELSE m.name

\* The delete_monitor calls of this run for monitor id.
DeletesOf(id) ==
    {i \in 1..Len(log) : log[i].op = "delete_monitor" /\ log[i].mon = id}

\* The pruning phase of this run is over.
PruningDone ==
    /\ pc \notin {"login", "get_monitors", "delete"}
    /\ Len(log) >= 2
    /\ log[2].op = "get_monitors"
    /\ log[2].res = "ok"

\* The pruning phase has just ended, or the run it belongs to has.
PruningChecked == PruningDone /\ pc \in {"refresh", "existing", "exited"}

\* No delete_monitor call comes after an add_monitor call.
DeletesPrecedeAdds ==
    RunOver => \A j \in 1..Len(log) :
        IsAdd(log[j]) => \A i \in j..Len(log) : log[i].op # "delete_monitor"

\* C6 as claimed: once the pruning phase of a run is over, every monitor of
\* the initial snapshot whose url, or whose name when it has no url, matches
\* an ignore pattern has had delete_monitor issued for it exactly once, and
\* every delete_monitor precedes the first add_monitor.
C6_PrunedByUrlOrName ==
    /\ PruningChecked =>
          \A k \in 1..Len(srvAtStart) :
              should_ignore(UrlOrName(srvAtStart[k]), cfg.ignore_patterns)
                  => Cardinality(DeletesOf(srvAtStart[k].id)) = 1
    /\ DeletesPrecedeAdds

\* C6 as amended: once the pruning phase of a run is over, every monitor of
\* the initial snapshot that has a url matching an ignore pattern has had
\* delete_monitor issued for it exactly once, no other monitor has had any,
\* and every delete_monitor precedes the first add_monitor.
C6_PrunedByUrl ==
    /\ PruningChecked =>
          \A k \in 1..Len(srvAtStart) :
              Cardinality(DeletesOf(srvAtStart[k].id)) =
                  IF /\ srvAtStart[k].url # <<>>
                     /\ should_ignore(srvAtStart[k].url, cfg.ignore_patterns)
                  THEN 1 ELSE 0
    /\ DeletesPrecedeAdds

\* A run pruned a monitor and later created one.
C6_Witness ==
    /\ PruningDone
    /\ \E i, j \in 1..Len(log) :
        log[i].op = "delete_monitor" /\ log[i].res = "ok" /\ IsAdd(log[j])

\* ---- C7
\* The tags the current group requires: its tag and its source-kind tag.
RequiredNow(kind_tag) == {tag_id, kind_tag} \ {0}

\* C7: under the Additive policy, when a group's pass finishes without a
\* failed call in the run, every monitor whose natural key the group
\* discovered (already existing or created in this run) carries the group tag
\* and the source-kind tag.
C7_TagUnion ==
    /\ (ProxyPassDone /\ ~cfg.reset_tags /\ NoFailedCall /\ tag_id # 0) =>
          \A k \in 1..Len(srvMonitors) :
              srvMonitors[k].url \in Range(hosts)
                  => RequiredNow(traefik_tag_id) \subseteq Range(srvMonitors[k].tags)
    /\ (DockerPassDone /\ ~cfg.reset_tags /\ NoFailedCall /\ tag_id # 0) =>
          \A k \in 1..Len(srvMonitors) :
              (/\ srvMonitors[k].type = "docker"
               /\ srvMonitors[k].docker_host = docker_host_id
               /\ srvMonitors[k].name \in Range(containers))
                  => RequiredNow(docker_tag_id) \subseteq Range(srvMonitors[k].tags)

\* ---- C8
\* C8: under the Additive policy no delete_monitor_tag is issued, and every
\* monitor still has every tag it had when the run started.
C8_AdditiveKeepsTags ==
    ~cfg.reset_tags =>
        /\ RunOver => \A i \in 1..Len(log) : log[i].op # "delete_monitor_tag"
        /\ \A k \in 1..Len(srvMonitors), j \in 1..Len(srvAtStart) :
              srvMonitors[k].id = srvAtStart[j].id
                  => Range(srvAtStart[j].tags) \subseteq Range(srvMonitors[k].tags)

\* An Additive run has ended after adding a tag to a monitor that carried a
\* tag of its own when the run started.
C8_Witness ==
    /\ ~cfg.reset_tags
    /\ pc = "exited"
    /\ \E k \in 1..Len(srvMonitors), j \in 1..Len(srvAtStart) :
        /\ srvMonitors[k].id = srvAtStart[j].id
        /\ srvAtStart[j].tags # <<>>
        /\ Len(srvMonitors[k].tags) > Len(srvAtStart[j].tags)

\* ---- C9
\* The resolved members of {group tag, source-kind tag} of a group.
RequiredOf(group_name, kind_name) ==
    {IdByName(srvTags, group_name), IdByName(srvTags, kind_name)} \ {0}

\* The run started with monitor m and m is still there.
StillThere(m) == \E k \in 1..Len(srvMonitors) : srvMonitors[k].id = m.id

TagsNow(m) ==
    LET k == CHOOSE n \in 1..Len(srvMonitors) : srvMonitors[n].id = m.id
    IN Range(srvMonitors[k].tags)

\* C9: after a Reset run without a failed call, every monitor that existed
\* when the run started and that a group matched has as its tag set exactly
\* the resolved members of that group's {group tag, source-kind tag}.
C9_ResetExact ==
    (pc = "exited" /\ exitCode = 0 /\ cfg.reset_tags /\ NoFailedCall) =>
        \A j \in 1..Len(srvAtStart) :
            StillThere(srvAtStart[j]) =>
                /\ \A g \in 1..Len(cfg.traefik_servers) :
                      srvAtStart[j].url \in
                          Range(FilterHosts(extract_hosts_from_traefik(cfg.traefik_servers[g]),
                                            cfg.ignore_patterns))
                        => TagsNow(srvAtStart[j])
                              = RequiredOf(cfg.traefik_servers[g].group, "traefik")
                /\ \A g \in 1..Len(cfg.docker_servers) :
                      (/\ srvAtStart[j].type = "docker"
                       /\ srvAtStart[j].name \in Range(cfg.docker_servers[g].names)
                       /\ srvAtStart[j].docker_host # 0
                       /\ srvAtStart[j].docker_host =
                             IdByName(srvDockerHosts,
                                      DockerHostName(cfg.docker_servers[g].group)))
                        => TagsNow(srvAtStart[j])
                              = RequiredOf(cfg.docker_servers[g].group, "docker")

\* ---- C10
\* Every failure of the run was an AuthExpired answer to a first attempt.
OnlyFirstAttemptExpiries ==
    \A i \in 1..Len(log) :
        log[i].res \in {"ok", "ignored"} \/ (log[i].res = "auth" /\ log[i].att = 0)

\* C10: in a run whose only failures are AuthExpired answers to first
\* attempts (re-authentication succeeding), every call that was answered
\* AuthExpired is made once more, with the same arguments, and succeeds.
C10_RetriedAfterExpiry ==
    (pc = "exited" /\ OnlyFirstAttemptExpiries) =>
        \A i \in 1..Len(log) :
            log[i].res = "auth" =>
                \E j \in (i + 1)..Len(log) :
                    /\ log[j].op = log[i].op
                    /\ log[j].mon = log[i].mon
                    /\ log[j].tag = log[i].tag
                    /\ log[j].key = log[i].key
                    /\ log[j].res = "ok"

\* ---- C11
\* The calls that change the service's monitors or tags.
IsMutation(e) ==
    e.op \in {"add_monitor", "delete_monitor", "add_tag", "add_monitor_tag",
              "delete_monitor_tag"}

\* The retry of a call, made after a successful re-authentication, was
\* answered AuthExpired again.
IsSecondExpiry(e) == e.res = "auth" /\ e.att > 0

\* C11 (double expiry): once the retry of an operation has been answered
\* AuthExpired again, no further mutating call is issued and the run ends
\* with a non-zero exit status.
C11_SecondExpiryIsFatal ==
    \A i \in 1..Len(log) :
        IsSecondExpiry(log[i]) =>
            /\ \A j \in (i + 1)..Len(log) : ~IsMutation(log[j])
            /\ pc = "exited" => exitCode # 0

\* ---- C12
\* The tag ids of a monitor's TagRefs are pairwise distinct.
NoDuplicateTag(m) == Cardinality(Range(m.tags)) = Len(m.tags)

\* C12 (at-most-once tag): under the Additive policy no monitor carries two
\* TagRefs of the same tag id.
C12_NoDuplicateTag ==
    ~cfg.reset_tags => \A i \in 1..Len(srvMonitors) : NoDuplicateTag(srvMonitors[i])

\* ---- C13
\* A failed re-authentication: the connect or the login of
\* ensure_authenticated raised.
IsReauthFailure(e) == e.op \in {"connect", "login"} /\ e.att > 0 /\ e.res # "ok"

\* A failed call outside every per-item handler: the initial login or a
\* monitor listing.
IsListingFailure(e) ==
    \/ e.op = "login" /\ e.att = 0 /\ e.res # "ok"
    \/ e.op = "get_monitors" /\ e.res # "ok"

\* A failed call that a per-item handler contains.
IsItemFailure(e) ==
    /\ e.op \in {"delete_monitor", "add_monitor", "get_tags", "add_tag",
                 "get_docker_hosts", "add_monitor_tag", "delete_monitor_tag"}
    /\ e.res \in {"err", "auth"}

C14_ReauthFailureEndsRun ==
    \A i \in 1..Len(log) :
        IsReauthFailure(log[i]) =>
            /\ exitCode # 0
            /\ \/ pc = "finally" /\ i = Len(log)
               \/ pc = "exited" /\ i + 1 = Len(log) /\ log[i + 1].op = "disconnect"

\* A run whose re-authentication failed has ended.
C14_Witness ==
    /\ pc = "exited"
    /\ \E i \in 1..Len(log) : IsReauthFailure(log[i])

\* ---- C15
\* The disconnect calls of the log that do not open a re-authentication (a
\* re-authentication's disconnect is followed by its connect).
FinalDisconnects ==
    {i \in 1..Len(log) :
        /\ log[i].op = "disconnect"
        /\ i = Len(log) \/ log[i + 1].op # "connect"}

\* C15: when sync_monitors has ended, on whichever path, exactly one final
\* disconnect was attempted and it is the last session call; and the step
\* that makes it leaves the exit status as it was, whatever the disconnect
\* answers.
C15_DisconnectOnExit ==
    /\ [](pc = "exited" => FinalDisconnects = {Len(log)})
    /\ [][pc = "finally" => (pc' = "exited" /\ exitCode' = exitCode)]_vars

\* A run has ended with a final disconnect that raised.
C15_Witness ==
    /\ pc = "exited"
    /\ log[Len(log)].op = "disconnect"
    /\ log[Len(log)].res = "err"

\* ---- C16
\* A call that failed for good: a non-auth error, or AuthExpired again after
\* the re-authentication.
IsFinalFailure(e) == e.res = "err" \/ (e.res = "auth" /\ e.att > 0)

\* A removal of the reset of a monitor failed for good.
IsFailedRemoval(e) == e.op = "delete_monitor_tag" /\ IsFinalFailure(e)

\* C16 (reset abort): under the Reset policy, after a removal of a monitor's
\* tag has failed, no add_monitor_tag is issued for that monitor in that
\* group's pass; and when the removal loop of such a monitor is over, the
\* pass goes on with the next monitor, with no call and no change of the exit
\* status.
C16_ResetAbort ==
    /\ [](\A i \in 1..Len(log) :
            IsFailedRemoval(log[i]) =>
                \A j \in (i + 1)..Len(log) :
                    (log[j].op = "add_monitor_tag" /\ log[j].g = log[i].g)
                        => log[j].mon # log[i].mon)
    /\ [][(pc = "rm_tag" /\ ti > Len(monitor_tags) /\ failed)
            => (pc' = chkRet /\ ci' = ci /\ log' = log /\ exitCode' = exitCode)]_vars

\* The reset of a monitor was abandoned after a failed removal and the tag
\* pass is back at its loop.
C16_Witness ==
    /\ cfg.reset_tags
    /\ failed
    /\ pc \in {"t_check", "d_check"}
    /\ \E i \in 1..Len(log) :
        IsFailedRemoval(log[i]) /\ log[i].mon = monitor_id /\ log[i].g = gi

\* ---- C17
\* The discovered URLs of the current proxy group that pass the ignore filter
\* and belong to no monitor of the snapshot or of an earlier group.
MissingOfProxyGroup ==
    {h \in Found(cfg.traefik_servers[gi]) :
        /\ ~should_ignore(h, cfg.ignore_patterns)
        /\ h \notin SnapshotUrls
        /\ h \notin CreatedByEarlierGroups}

\* The discovered containers of the current docker group for which the
\* snapshot holds no Docker monitor on the group's docker host.
MissingOfDockerGroup ==
    {c \in Range(cfg.docker_servers[gi].names) :
        \A k \in 1..Len(monitors) :
            ~(/\ monitors[k].type = "docker"
              /\ monitors[k].name = c
              /\ monitors[k].docker_host = docker_host_id)}

\* C17 (best-effort tagging): when a group whose group tag or source-kind tag
\* did not resolve has finished its creation loop, add_monitor has been
\* issued for every missing identifier of the group; and add_monitor_tag is
\* never issued with the null tag id.
C17_TaggingIsBestEffort ==
    /\ (ProxyPassDone /\ (tag_id = 0 \/ traefik_tag_id = 0)) =>
          \A h \in MissingOfProxyGroup :
              \E i \in 1..Len(log) :
                  IsHttpAdd(log[i]) /\ log[i].g = gi /\ log[i].key = h
    /\ (DockerPassDone /\ (tag_id = 0 \/ docker_tag_id = 0)) =>
          \A c \in MissingOfDockerGroup :
              \E i \in 1..Len(log) :
                  /\ IsDockerAdd(log[i])
                  /\ log[i].g = gi
                  /\ log[i].key = c
                  /\ log[i].dh = docker_host_id
    /\ RunOver => \A i \in 1..Len(log) : log[i].op = "add_monitor_tag" => log[i].tag # 0

\* A proxy group whose label did not resolve to a tag (get_or_create_tag
\* failed) has created a monitor and finished its creation loop.
C17_Witness ==
    /\ ProxyPassDone
    /\ cfg.traefik_servers[gi].group # ""
    /\ tag_id = 0
    /\ \E i \in 1..Len(log) :
        IsHttpAdd(log[i]) /\ log[i].g = gi /\ log[i].res = "ok"

\* ---- C18
\* The id the service's tag listing gives for a name, 0 when it has none.
TagIdOf(name) ==
    IF \E k \in 1..Len(srvTags) : srvTags[k].name = name
    THEN srvTags[CHOOSE k \in 1..Len(srvTags) :
                    /\ srvTags[k].name = name
                    /\ \A l \in 1..(k - 1) : srvTags[l].name # name].id
    ELSE 0

\* get_or_create_tag has just returned to its caller.
TagReturned == pc \in {"traefik_tag", "t_tagged", "d_tagged", "d_kind_tagged"}

\* C18 as claimed: within a run add_tag is issued at most once for a name.
C18_AddTagIssuedOnce ==
    \A j \in 1..Len(log) :
        log[j].op = "add_tag" =>
            \A i \in 1..(j - 1) : log[i].op = "add_tag" => log[i].key # log[j].key

\* C18 as amended: within a run add_tag succeeds at most once for a name (it
\* is issued again only after a failed attempt); it is issued only right
\* after a tag listing that does not hold the name; the id of a name never
\* changes once the name has one; and every call of get_or_create_tag that
\* does not fail returns that id.
C18_TagResolverIdempotent ==
    /\ [](\A j \in 1..Len(log) :
            log[j].op = "add_tag" =>
                /\ \A i \in 1..(j - 1) :
                        (log[i].op = "add_tag" /\ log[i].key = log[j].key)
                            => log[i].res # "ok"
                /\ j > 1
                /\ log[j - 1].op = "get_tags"
                /\ log[j - 1].res = "ok"
                /\ log[j - 1].key = log[j].key
                /\ log[j].res = "ok" => TagIdOf(log[j].key[1]) = log[j].tag)
    /\ [](pc = "tag_add" => TagIdOf(tag_name) = 0)
    /\ []((TagReturned /\ tagResult # 0) => tagResult = TagIdOf(tag_name))
    /\ [][\A k \in 1..Len(srvTags) :
            TagIdOf(srvTags[k].name)' = TagIdOf(srvTags[k].name)]_vars

\* A name whose tag was created in this run has been resolved again, through
\* the lookup branch, to the id the creation gave it.
C18_Witness ==
    /\ TagReturned
    /\ tagResult # 0
    /\ \E i \in 1..Len(log) :
        /\ log[i].op = "add_tag"
        /\ log[i].res = "ok"
        /\ log[i].key = <<tag_name>>
        /\ log[i].tag = tagResult
        /\ log[Len(log)].op = "get_tags"
        /\ log[Len(log)].key = <<tag_name>>
        /\ i < Len(log)

\* ---- C19
\* The docker host id of the docker group g, 0 when the service has no such
\* docker host.
DockerHostIdOf(g) ==
    IdByName(srvDockerHosts, DockerHostName(cfg.docker_servers[g].group))

\* C19 (workload natural key): in a docker group's creation loop the batch
\* holds exactly the discovered containers for which the snapshot has no
\* Docker monitor with that name on the group's docker host; and a tag call
\* for a Docker monitor is made only in the pass of a group that discovered
\* its name and resolves to its docker host.
C19_WorkloadNaturalKey ==
    /\ pc = "d_create" => Range(missing) = MissingOfDockerGroup
    /\ RunOver => \A i \in 1..Len(log) :
          IsTagMutation(log[i]) =>
              \A k \in 1..Len(srvMonitors) :
                  (srvMonitors[k].id = log[i].mon /\ srvMonitors[k].type = "docker")
                      => /\ log[i].g \in 1..Len(cfg.docker_servers)
                         /\ srvMonitors[k].name \in Range(cfg.docker_servers[log[i].g].names)
                         /\ srvMonitors[k].docker_host = DockerHostIdOf(log[i].g)

\* A docker group has finished its pass: the snapshot holds a Docker monitor
\* with a discovered name under another docker host, the container was
\* created on the group's docker host, and the other monitor got no tag call.
C19_Witness ==
    /\ DockerPassDone
    /\ \E k \in 1..Len(monitors) :
        /\ monitors[k].type = "docker"
        /\ monitors[k].name \in Range(containers)
        /\ monitors[k].docker_host # docker_host_id
        /\ \E i \in 1..Len(log) :
            /\ IsDockerAdd(log[i])
            /\ log[i].res = "ok"
            /\ log[i].key = monitors[k].name
            /\ log[i].dh = docker_host_id
        /\ \A i \in 1..Len(log) : IsTagMutation(log[i]) => log[i].mon # monitors[k].id

\* ---- C20
\* get_docker_host_id gave no host id: the listing failed for good, or it
\* held no docker host of the group's name.
IsFailedHostLookup(e) ==
    /\ e.op = "get_docker_hosts"
    /\ IsFinalFailure(e) \/ (e.res = "ok" /\ e.dh = 0)

\* C20: after the docker host lookup of a workload group gave no host id, no
\* add_monitor and no monitor-tag call is issued for that group, and the run
\* goes on, with its exit status unchanged, to the next workload group.
C20_NoDockerHostSkipsGroup ==
    \A i \in 1..Len(log) :
        IsFailedHostLookup(log[i]) =>
            /\ \A j \in (i + 1)..Len(log) :
                  log[j].g = log[i].g => (~IsAdd(log[j]) /\ ~IsTagMutation(log[j]))
            /\ i = Len(log) =>
                  /\ gi > log[i].g
                  /\ exitCode = 0
                  /\ pc \in {"d_group", "tag_get", "d_tagged", "finally"}

\* A workload group was skipped for want of a docker host and a later
\* workload group of the run created a monitor.
C20_Witness ==
    \E i, j \in 1..Len(log) :
        /\ i < j
        /\ IsFailedHostLookup(log[i])
        /\ IsDockerAdd(log[j])
        /\ log[j].res = "ok"
        /\ log[j].g > log[i].g

\* ------------------------------------------------------------------ C21
\* A failed call on one item: a monitor, a tag of a monitor, or a tag name.
IsPerItemFailure(e) ==
    /\ e.op \in {"delete_monitor", "add_monitor", "add_monitor_tag",
                 "delete_monitor_tag", "get_tags", "add_tag"}
    /\ e.res \in {"err", "auth"}

\* Whether the handler of a failed call prints a line for it.  pruning prints
\* "Failed to remove", the creation loops "Failed", get_or_create_tag its
\* "Warning: Could not create tag", the removal loop "Failed after
\* re-authentication" or "Warning: Could not remove tag", and a retried call
\* the "Session expired" line of ensure_authenticated; add_tags_to_monitor
\* prints its warning in the last attempt only.
Reported(e) ==
    IF e.op = "add_monitor_tag"
    THEN \/ e.res = "auth" /\ e.att < max_retries - 1
         \/ e.att = max_retries - 1
    ELSE TRUE

\* C21: every failed per-item call (delete_monitor, add_monitor,
\* add_monitor_tag, delete_monitor_tag, tag resolution) has a failure or
\* warning line printed for it, a non-auth error of the first attempt of
\* add_monitor_tag included.
C21_NoSilentFailure ==
    \A i \in 1..Len(log) : IsPerItemFailure(log[i]) => Reported(log[i])

\* ------------------------------------------------------------------ C23
\* The extraction on its own: one proxy whose answer holds at most MaxRouters
\* routers, each with entry points of RouterEntryPoints and a rule of
\* RouterRules.
MaxRouters == 2

RouterEntryPoints == {<<"https">>, <<"http">>, <<"http", "https">>, << >>}

RouterRules ==
    { HostRule(<<"b">>),
      HostRule(<<"A", "x">>),
      HostRule(<<"b">>) \o <<"|", "|">> \o HostRule(<<"c">>),
      <<"P", "(", Tick, "/", Tick, ")">>,
      HostRule(<< >>) \o HostRule(<<"c">>) }

RouterChoices == {Router(eps, rule) : eps \in RouterEntryPoints, rule \in RouterRules}

RouterLists == UNION {[1..n -> RouterChoices] : n \in 0..MaxRouters}

ExtractInit ==
    /\ \E rs \in RouterLists, f \in BOOLEAN :
           cfg = [traefik_servers |-> << [group |-> "g1", fails |-> f, routers |-> rs] >>,
                  docker_servers |-> << >>,
                  ignore_patterns |-> << >>,
                  reset_tags |-> FALSE]
    /\ srvMonitors = << >>
    /\ srvTags = << >>
    /\ srvDockerHosts = << >>
    /\ srvNextId = 1
    /\ srvAtStart = << >>
    /\ run = 1
    /\ prevClean = FALSE
    /\ faults = 0
    /\ pc = "extract"
    /\ exitCode = 0
    /\ log = <<>>
    /\ monitors = <<>>
    /\ monitors_to_remove = <<>>
    /\ ri = 1
    /\ total_removed = 0
    /\ existing_urls = {}
    /\ traefik_tag_id = 0
    /\ total_created = 0
    /\ gi = 1
    /\ hosts = <<>>
    /\ containers = <<>>
    /\ tag_id = 0
    /\ docker_tag_id = 0
    /\ docker_host_id = 0
    /\ existing_hosts = <<>>
    /\ ci = 1
    /\ monitor_id = 0
    /\ monitor_tags = <<>>
    /\ ti = 1
    /\ failed = FALSE
    /\ tags_to_add = <<>>
    /\ ai = 1
    /\ attempt = 0
    /\ missing = <<>>
    /\ mi = 1
    /\ tag_name = ""
    /\ tagResult = 0
    /\ tagRet = ""
    /\ addRet = ""
    /\ authRet = ""
    /\ chkRet = ""

\* hosts = extract_hosts_from_traefik(traefik_url)
ExtractHosts ==
    /\ pc = "extract"
    /\ hosts' = extract_hosts_from_traefik(cfg.traefik_servers[gi])
    /\ pc' = "extracted"
    /\ UNCHANGED <<srv, runv, prune, base, gi, containers, tag_id, docker_tag_id,
                   docker_host_id, chk, addv, crt, proc, faults, exitCode, log,
                   attempt>>

SpecExtract == ExtractInit /\ [][ExtractHosts]_vars

\* The names n for which the rule holds the text Host('n').
HostPatterns(rule) ==
    {SubSeq(rule, i + 6, j - 1) :
        <<i, j>> \in {p \in (1..Len(rule)) \X (1..Len(rule)) :
                        /\ Slice(rule, p[1], p[1] + 5) = HostOpen
                        /\ p[2] > p[1] + 6
                        /\ Slice(rule, p[2], p[2] + 1) = HostClose
                        /\ \A k \in (p[1] + 6)..(p[2] - 1) : rule[k] # Tick}}

\* https://<name> for every Host pattern of every router with an "https"
\* entry point.
DesiredOf(routers) ==
    UNION {{HTTPS \o n : n \in HostPatterns(routers[k].rule)} :
             k \in {q \in 1..Len(routers) : "https" \in Range(routers[q].entryPoints)}}

\* C23: the sequence returned for a proxy whose fetch succeeded holds exactly
\* the URLs https://<name> such that some router has "https" among its entry
\* points and a rule containing a Host pattern of that name; a router without
\* the https entry point contributes nothing; no URL is returned twice.
C23_ProxyExtraction ==
    (pc = "extracted" /\ ~cfg.traefik_servers[gi].fails) =>
        /\ Range(hosts) = DesiredOf(cfg.traefik_servers[gi].routers)
        /\ \A i, j \in 1..Len(hosts) : hosts[i] = hosts[j] => i = j

\* ------------------------------------------------------------------ C22
\* The proxy loop has ended without a fatal exit.
ProxyLoopDone == pc = "d_group"

\* The docker loop has ended without a fatal exit.
DockerLoopDone ==
    /\ pc = "finally"
    /\ exitCode = 0
    /\ PruningDone
    /\ log[Len(log)].op # "get_monitors"
    /\ gi > Len(cfg.docker_servers)

\* C22: a group whose extractor failed or returned nothing has no call made
\* for it: no add_monitor, no tag mutation, no tag lookup or creation; and the
\* groups after it are still processed: when the proxy loop ends every URL
\* found by a group, not ignored and not in the snapshot, has had its
\* add_monitor, and when the docker loop ends every group with containers has
\* had its calls.
C22_EmptyGroupContained ==
    /\ RunOver => \A g \in 1..Len(cfg.traefik_servers) :
         extract_hosts_from_traefik(cfg.traefik_servers[g]) = <<>> =>
             \A i \in 1..Len(log) : ~(log[i].src = "traefik" /\ log[i].g = g)
    /\ RunOver => \A g \in 1..Len(cfg.docker_servers) :
         extract_containers_from_docker(cfg.docker_servers[g]) = <<>> =>
             \A i \in 1..Len(log) : ~(log[i].src = "docker" /\ log[i].g = g)
    /\ ProxyLoopDone =>
         \A g \in 1..Len(cfg.traefik_servers) :
           \A h \in Found(cfg.traefik_servers[g]) :
             (~should_ignore(h, cfg.ignore_patterns) /\ h \notin SnapshotUrls)
                 => \E i \in 1..Len(log) : IsHttpAdd(log[i]) /\ log[i].key = h
    /\ DockerLoopDone =>
         \A g \in 1..Len(cfg.docker_servers) :
           extract_containers_from_docker(cfg.docker_servers[g]) # <<>>
               => \E i \in 1..Len(log) : log[i].src = "docker" /\ log[i].g = g

\* A proxy whose fetch failed was followed by a proxy whose URL got its
\* monitor, and the log holds no call for the first.
C22_Witness ==
    /\ ProxyLoopDone
    /\ Len(cfg.traefik_servers) = 2
    /\ cfg.traefik_servers[1].fails
    /\ \E i \in 1..Len(log) :
         /\ IsHttpAdd(log[i])
         /\ log[i].res = "ok"
         /\ log[i].g = 2
         /\ log[i].key \in Found(cfg.traefik_servers[2])
    /\ \A i \in 1..Len(log) : ~(log[i].src = "traefik" /\ log[i].g = 1)

\* ------------------------------------------------------------------ C24
\* C24 (reset abort, no further removal): under the Reset policy, after the
\* removal of one of a monitor's tags has failed, no further
\* delete_monitor_tag is issued for that monitor in that group's pass.
C24_NoRemovalAfterFailure ==
    \A j \in 1..Len(log) :
        log[j].op = "delete_monitor_tag" =>
            \A i \in 1..(j - 1) :
                ~ /\ IsFailedRemoval(log[i])
                  /\ log[i].mon = log[j].mon
                  /\ log[i].g = log[j].g
                  /\ log[i].src = log[j].src

\* ------------------------------------------------------------------ C25
\* The positions of the log's successful add_monitor calls.
CreatedCalls == {i \in 1..Len(log) : IsAdd(log[i]) /\ log[i].res = "ok"}

\* C25 (batch isolation): a failed add_monitor does not end the batch: when a
\* group's creation loop is over, add_monitor has been issued for every
\* identifier of its batch; between two identifiers the created total counts
\* the successful add_monitor calls only, and the in-run existing set holds
\* the snapshot's URLs and the URLs of successful add_monitor calls only.
C25_BatchIsolation ==
    /\ ProxyPassDone =>
         \A k \in 1..Len(missing) :
           \E i \in 1..Len(log) :
             /\ IsHttpAdd(log[i])
             /\ log[i].src = "traefik"
             /\ log[i].g = gi
             /\ log[i].key = missing[k]
    /\ DockerPassDone =>
         \A k \in 1..Len(missing) :
           \E i \in 1..Len(log) :
             /\ IsDockerAdd(log[i])
             /\ log[i].src = "docker"
             /\ log[i].g = gi
             /\ log[i].key = missing[k]
    /\ pc \in {"t_create", "d_create"} =>
         /\ total_created = Cardinality(CreatedCalls)
         /\ existing_urls =
              ExistingUrls(monitors) \cup
              {log[i].key : i \in {j \in CreatedCalls : IsHttpAdd(log[j])}}

\* The first add_monitor of a batch of two failed, the second succeeded: one
\* monitor is counted and the failed URL is not in the existing set.
C25_Witness ==
    /\ ProxyPassDone
    /\ Len(missing) = 2
    /\ \E i, j \in 1..Len(log) :
         /\ i < j
         /\ IsHttpAdd(log[i]) /\ log[i].res # "ok" /\ log[i].key = missing[1]
         /\ IsHttpAdd(log[j]) /\ log[j].res = "ok" /\ log[j].key = missing[2]
         /\ log[i].g = gi /\ log[j].g = gi
    /\ total_created = 1
    /\ missing[1] \notin existing_urls
    /\ missing[2] \in existing_urls

\* ------------------------------------------------------------------ C26
\* The calls made inside a retry loop.
IsRetriedOp(e) ==
    e.op \in {"get_tags", "add_tag", "get_docker_hosts", "add_monitor_tag",
              "delete_monitor_tag"}

\* The first call of ensure_authenticated: its disconnect.
IsReauthStart(e) == e.op = "disconnect" /\ e.res = "ignored"

\* C26 (retry bound): a tag resolution, docker-host lookup, add_monitor_tag or
\* delete_monitor_tag is attempted at most twice: no call is made in a third
\* attempt and no call is made twice within one second attempt;
\* ensure_authenticated is invoked only right after an AuthExpired answer to a
\* first attempt, so at most once per operation; and after a non-auth error
\* the next call belongs to another operation's first attempt.
C26_RetryBound ==
    RunOver => \A i \in 1..Len(log) :
        /\ log[i].att < max_retries
        /\ IsReauthStart(log[i]) =>
              /\ i > 1
              /\ IsRetriedOp(log[i - 1])
              /\ log[i - 1].res = "auth"
              /\ log[i - 1].att = 0
        /\ (IsRetriedOp(log[i]) /\ log[i].res = "err" /\ i < Len(log)) =>
              log[i + 1].att = 0
        /\ (IsRetriedOp(log[i]) /\ log[i].att > 0) =>
              \A j \in 1..(i - 1) :
                  (\A k \in j..i : log[k].att > 0) => log[j].op # log[i].op

\* An expired session at the first attempt of a tag call was followed by one
\* re-authentication and a second attempt that expired too, and the run went
\* on to another call in a first attempt.
C26_Witness ==
    \E i, j, k \in 1..Len(log) :
        /\ i < j /\ j < k
        /\ IsRetriedOp(log[i]) /\ log[i].res = "auth" /\ log[i].att = 0
        /\ IsReauthStart(log[i + 1])
        /\ log[j].op = log[i].op /\ log[j].att = 1 /\ log[j].res = "auth"
        /\ log[k].att = 0

\* ------------------------------------------------------------------ C27
\* The URLs some proxy of the configuration discovers.
DiscoveredUrls ==
    UNION {Found(cfg.traefik_servers[g]) : g \in 1..Len(cfg.traefik_servers)}

\* The monitor of the run's initial snapshot has a URL matching an ignore
\* pattern.
UrlIgnored(m) == m.url # <<>> /\ should_ignore(m.url, cfg.ignore_patterns)

\* C27 (deletion scope): every delete_monitor is issued in the pruning phase,
\* after the login and the listing and before any other call, with ignore
\* patterns configured, and for a monitor whose URL matches one of them; a
\* monitor whose URL matches none, discovered or not, stays on the server.
C27_DeletionScope ==
    /\ RunOver => \A i \in 1..Len(log) :
         log[i].op = "delete_monitor" =>
           /\ cfg.ignore_patterns # <<>>
           /\ i > 2
           /\ log[1].op = "login"
           /\ log[2].op = "get_monitors"
           /\ \A j \in 3..(i - 1) : log[j].op = "delete_monitor"
           /\ \E k \in 1..Len(srvAtStart) :
                srvAtStart[k].id = log[i].mon /\ UrlIgnored(srvAtStart[k])
    /\ \A k \in 1..Len(srvAtStart) :
         ~UrlIgnored(srvAtStart[k]) =>
            \E n \in 1..Len(srvMonitors) : srvMonitors[n].id = srvAtStart[k].id

\* A run has ended that deleted an ignored monitor and kept a monitor whose
\* URL no proxy discovers.
C27_Witness ==
    /\ pc = "exited"
    /\ \E i \in 1..Len(log) : log[i].op = "delete_monitor" /\ log[i].res = "ok"
    /\ \E k \in 1..Len(srvAtStart) :
         /\ srvAtStart[k].url # <<>>
         /\ srvAtStart[k].url \notin DiscoveredUrls
         /\ ~UrlIgnored(srvAtStart[k])
         /\ \E n \in 1..Len(srvMonitors) : srvMonitors[n].id = srvAtStart[k].id
    /\ \E i \in 1..Len(log) : log[i].op = "get_tags"

====
